---- MODULE Spec2Model ----
(***************************************************************************)
(* A model of log4j-sniffer: the archive format detector                   *)
(* (pkg/archive/formats.go), the docker image scanner (package docker:     *)
(* Scanner.ScanImages and Scanner.scanImage) and, from the design          *)
(* document, the identifier and reporter the scanner drives.               *)
(***************************************************************************)
EXTENDS Integers, Sequences, FiniteSets, TLC

VARIABLES
    \* ---- format detector ----
    fname,      \* the filename handed to ParseArchiveFormatFromFile (a token string)
    fres,       \* its result <<format, matched>>, or Pending / Panic
    fpc,        \* "call" before the call, "done" after it
    \* ---- identifier ----
    node,       \* the node handed to Identify
    timedOut,   \* the listing of that node ran into the timeout
    ires,       \* what Identify returned for it
    ipc,        \* "call": Identify is next; "collect": the reporter's Collect is next
    crep,       \* the reporter of the crawl
    seen,       \* the paths collected so far, by kind of evidence (history)
    \* ---- docker scanner ----
    scannerErr, \* the error NewDockerScanner returned
    config,     \* scan.Config: DisableCVE45105, OutputSummary
    imageList,  \* the images the docker daemon lists
    ctxDone,    \* the context passed to ScanImages has been cancelled
    pc,         \* the statement ScanImages / scanImage is about to execute
    idx,        \* position of the range loop in imageList (0: not yet listed)
    reporter,   \* *crawl.Reporter: image ID, image tags, count, DisableCVE45105
    stats,      \* var stats crawl.Stats of ScanImages
    loc,        \* the locals of the running scanImage call
    fs,         \* the filesystem: temporary directories, their content, the cwd
    errWriter,  \* the lines written to d.crawler.ErrorWriter
    summary,    \* what scan.WriteSummary was handed
    result,     \* what ScanImages returned
    hist,       \* per image: what happened to it (history, read by no action)
    faults      \* how many calls have failed for a reason other than cancellation

fmtVars == <<fname, fres, fpc>>
identVars == <<node, timedOut, ires, ipc, crep, seen>>
dockerVars == <<scannerErr, config, imageList, ctxDone, pc, idx, reporter, stats, loc, fs,
                errWriter, summary, result, hist, faults>>
vars == <<fmtVars, identVars, dockerVars>>

-----------------------------------------------------------------------------
(* Bounds of the model. *)

\* longest filename, in tokens ("app.tar.gz" is five tokens)
MaxNameTokens == 5
\* most images the daemon lists
MaxImages == 2
\* most nodes the crawl of one image visits
MaxNodes == 1
\* most paths the crawl of one tree visits
MaxPaths == 2
\* most calls that fail in one run for a reason other than cancellation
MaxFaults == 2
\* most entries a container lists
MaxEntries == 2

-----------------------------------------------------------------------------
(* pkg/archive/formats.go *)

UnsupportedArchive == 0
TarArchive == 1
TarGzArchive == 2
TarBz2Archive == 3
ZipArchive == 4

\* the extension table
extensions ==
    [k \in {"ear", "jar", "par", "war", "zip", "tar", "tar.gz", "tgz", "tar.bz2", "tbz2"} |->
        CASE k \in {"ear", "jar", "par", "war", "zip"} -> ZipArchive
          [] k = "tar" -> TarArchive
          [] k \in {"tar.gz", "tgz"} -> TarGzArchive
          [] k \in {"tar.bz2", "tbz2"} -> TarBz2Archive]

\* A filename is a string; TLC cannot index into a string, so a filename is
\* kept as the sequence of tokens whose concatenation it is. "." is a token
\* of its own and no other token holds a '.'.
Dot == "."
FileTokens == {Dot, "tar", "gz", "bz2", "jar", "zip", "war", "ear", "par", "t"}

RECURSIVE SplitLoop(_, _)
\* strings.Split(s, "."): acc holds the segments so far, the last one still open
SplitLoop(toks, acc) ==
    IF toks = <<>> THEN acc
    ELSE IF Head(toks) = Dot
         THEN SplitLoop(Tail(toks), Append(acc, ""))
         ELSE SplitLoop(Tail(toks),
                        [acc EXCEPT ![Len(acc)] = acc[Len(acc)] \o Head(toks)])

\* strings.Split(filename, "."): never empty, "" splits to <<"">>
Split(toks) == SplitLoop(toks, <<"">>)

RECURSIVE Join(_)
\* strings.Join(segs, ".")
Join(segs) ==
    IF segs = <<>> THEN ""
    ELSE IF Len(segs) = 1 THEN segs[1]
    ELSE segs[1] \o Dot \o Join(Tail(segs))

Pending == <<"pending">>
\* a slice expression out of range: the program panics
Panic == <<"panic">>

\* fileSplit[i:], i counted from 0 as in the source
SliceFrom(fileSplit, i) == SubSeq(fileSplit, i + 1, Len(fileSplit))

RECURSIVE ParseLoop(_, _)
\* the loop of ParseArchiveFormatFromFile: for i := len-1; i >= len-2; i--
ParseLoop(fileSplit, i) ==
    IF ~(i >= Len(fileSplit) - 2) THEN <<UnsupportedArchive, FALSE>>
    ELSE IF i < 0 THEN Panic
    ELSE LET key == Join(SliceFrom(fileSplit, i))
         IN IF key \in DOMAIN extensions
            THEN <<extensions[key], TRUE>>
            ELSE ParseLoop(fileSplit, i - 1)

\* a plausible slip: only the final segment is looked up
ParseLastSegmentOnly(filename) ==
    LET fileSplit == Split(filename)
    IN IF Len(fileSplit) < 2 THEN <<UnsupportedArchive, FALSE>>
       ELSE LET key == fileSplit[Len(fileSplit)]
            IN IF key \in DOMAIN extensions
               THEN <<extensions[key], TRUE>>
               ELSE <<UnsupportedArchive, FALSE>>

\* a plausible slip: the length guard is missing
ParseWithoutGuard(filename) ==
    LET fileSplit == Split(filename)
    IN ParseLoop(fileSplit, Len(fileSplit) - 1)

ParseArchiveFormatFromFile(filename) ==
    LET fileSplit == Split(filename)
    IN IF Len(fileSplit) < 2 THEN <<UnsupportedArchive, FALSE>>
       ELSE ParseLoop(fileSplit, Len(fileSplit) - 1)

-----------------------------------------------------------------------------
(* The identifier and the reporter (crawl.Identifier, crawl.Reporter,       *)
(* crawl.Stats): their code is not among the sources, so they follow the    *)
(* design document, sections 3, 4.4 and 4.5.                                *)

\* an error value: the message it was wrapped with and its cause
Err(wrap, cause) == [wrap |-> wrap, cause |-> cause]
NilErr == Err("", "nil")

\* a nil pointer
Nil == [nil |-> TRUE]

\* NewDockerScanner: clientErr is what client.NewClientWithOpts returned; with
\* an error no Scanner is built, otherwise the Scanner holds the configuration
\* and a reporter that carries its switch
NewDockerScanner(cfg, clientErr) ==
    IF clientErr # NilErr
    THEN [scanner |-> Nil,
          err |-> Err("failed to create docker client", clientErr.cause)]
    ELSE [scanner |->
             [config |-> cfg,
              reporter |-> [ImageID |-> 0, ImageTags |-> <<>>, count |-> 0,
                            DisableCVE45105 |-> cfg.DisableCVE45105]],
          err |-> NilErr]

NoVersion == <<>>

\* the decimal numbers a version token may be
NumTokens == {"0", "1", "2", "14", "16", "17"}
ParseNum(tok) ==
    CASE tok = "0" -> 0 [] tok = "1" -> 1 [] tok = "2" -> 2
      [] tok = "14" -> 14 [] tok = "16" -> 16 [] tok = "17" -> 17

\* a.b.c < x.y.z
VersionLess(a, b) ==
    \/ a[1] < b[1]
    \/ a[1] = b[1] /\ a[2] < b[2]
    \/ a[1] = b[1] /\ a[2] = b[2] /\ a[3] < b[3]

\* log4j-core-<major>.<minor>.<patch>.jar, matched token by token
JarNamePattern(name) ==
    /\ Len(name) = 8
    /\ name[1] = "log4j-core-"
    /\ name[2] \in NumTokens /\ name[3] = Dot
    /\ name[4] \in NumTokens /\ name[5] = Dot
    /\ name[6] \in NumTokens /\ name[7] = Dot
    /\ name[8] = "jar"

\* the version token the pattern captures
JarNameVersion(name) == <<ParseNum(name[2]), ParseNum(name[4]), ParseNum(name[6])>>

\* a release of the library the CVEs affect: 2.x before 2.17.0
VulnerableVersion(version) == version[1] = 2 /\ VersionLess(version, <<2, 17, 0>>)

\* step 1: the name is that of a vulnerable release of the library. The jar of
\* a fixed release is not matched: a tree holding one reports no file
\* (TestGoodVersion).
JarNameMatch(name) ==
    JarNamePattern(name) /\ VulnerableVersion(JarNameVersion(name))

TargetPackage == "org/apache/logging/log4j/core/net"
TargetClass == <<"JndiManager", Dot, "class">>

\* content digests of the target class in the known vulnerable releases, with
\* their version
KnownDigests ==
    [d \in {"md5-2.14.1", "md5-2.16.0"} |->
        IF d = "md5-2.14.1" THEN <<2, 14, 1>> ELSE <<2, 16, 0>>]

\* an entry's name is the vulnerable class's simple name
IsClass(e) == e.name = TargetClass
\* an entry's package-qualified path is the target class exactly
IsTargetClass(e) == IsClass(e) /\ e.dir = TargetPackage
\* the content digest of a located class is in the table
DigestKnown(e) == IsClass(e) /\ e.digest \in DOMAIN KnownDigests

\* the entries the identifier reads when it looks inside the node: those of a
\* recognised container, in container order; none when the listing times out
Listed(nd, listTimedOut) ==
    IF ParseArchiveFormatFromFile(nd.name)[2] /\ ~listTimedOut THEN nd.entries ELSE <<>>

\* the class-bearing things the identifier inspects: the node itself, then the
\* entries it reads inside it
Inspected(nd, listTimedOut) ==
    <<[name |-> nd.name, dir |-> nd.dir, digest |-> nd.digest]>> \o Listed(nd, listTimedOut)

\* the lowest of a set of versions
LowestVersion(versions) ==
    CHOOSE v \in versions : \A w \in versions : ~VersionLess(w, v)

\* step 4 without its "no JarName already set" condition
ListingPassUnguarded(nd, found, listTimedOut) ==
    \E k \in 1..Len(Listed(nd, listTimedOut)) : JarNameMatch(Listed(nd, listTimedOut)[k].name)

\* step 4: the listing-only pass over a recognised container that JarName has
\* not flagged; abandoned, setting nothing, on timeout
ListingPass(nd, found, listTimedOut) ==
    /\ "JarName" \notin found
    /\ \E k \in 1..Len(Listed(nd, listTimedOut)) : JarNameMatch(Listed(nd, listTimedOut)[k].name)

\* identify(name, size, open) -> (Finding, Version), steps 1 to 4. The class
\* signals of steps 2 and 3 are unioned onto the node from the classes found
\* inside it: log4j-core-2.14.1.jar is reported with jarNameMatched,
\* classPackageAndNameMatched and classFileMd5Matched together
\* (TestBadVersions, "single bad version"). The class at its own package is
\* reported when its digest is a known one, so that the jar of a fixed
\* release reports nothing (TestGoodVersion); a relocated copy is reported by
\* its name alone (TestBadVersions, "light shading").
Identify(nd, listTimedOut) ==
    LET es == Inspected(nd, listTimedOut)
        classes == {c \in {es[k] : k \in 1..Len(es)} : IsClass(c)}
        known == {c \in classes : DigestKnown(c)}
        jar == JarNameMatch(nd.name)
        pkg == \E c \in known : IsTargetClass(c)
        cls == \E c \in classes : ~IsTargetClass(c)
        f1 == IF jar THEN {"JarName"} ELSE {}
        f2 == IF pkg THEN {"ClassPackageAndName"}
              ELSE IF cls THEN {"ClassName"} ELSE {}
        f3 == IF known # {} THEN {"ClassFileMd5"} ELSE {}
        f4 == IF ListingPass(nd, f1, listTimedOut) THEN {"JarNameInsideArchive"} ELSE {}
    IN [finding |-> f1 \cup f2 \cup f3 \cup f4,
        version |-> IF known # {}
                    THEN LowestVersion({KnownDigests[c.digest] : c \in known})
                    ELSE IF jar THEN JarNameVersion(nd.name)
                    ELSE NoVersion]

\* step 5: the narrow CVE (CVE-2021-45105) band, >= 2.16.0 and < 2.17.0
InNarrowBand(version) ==
    /\ version # NoVersion
    /\ ~VersionLess(version, <<2, 16, 0>>)
    /\ VersionLess(version, <<2, 17, 0>>)

\* the suppression rule left out: every path with a flag is counted
ReportableSwitchIgnored(rep, finding, version) ==
    finding # {}

\* whether collect counts the path: some flag is set, after the suppression rule
Reportable(rep, finding, version) ==
    /\ finding # {}
    /\ ~(rep.DisableCVE45105 /\ InNarrowBand(version))

\* Reporter.Collect: the vulnerable-path counter
Collect(rep, finding, version) ==
    IF Reportable(rep, finding, version)
    THEN [rep EXCEPT !.count = @ + 1]
    ELSE rep

\* crawl.Stats and Stats.Append: the merge of two accumulators
EmptyStats == [FilesScanned |-> 0]
StatsAppend(a, b) == [FilesScanned |-> a.FilesScanned + b.FilesScanned]

\* names of files and of archive entries
Jar2141 == <<"log4j-core-", "2", Dot, "14", Dot, "1", Dot, "jar">>
Jar2160 == <<"log4j-core-", "2", Dot, "16", Dot, "0", Dot, "jar">>
Jar2170 == <<"log4j-core-", "2", Dot, "17", Dot, "0", Dot, "jar">>
NodeNames ==
    {Jar2141, Jar2160, Jar2170,
     <<"app", Dot, "war">>, <<"dist", Dot, "tar", Dot, "gz">>, <<"notes", Dot, "txt">>}
EntryNames == {Jar2141, Jar2160, Jar2170, <<"lib", Dot, "jar">>}
Dirs == {"shaded", TargetPackage}
Digests == {"none", "md5-2.14.1", "md5-2.16.0"}

\* an archive entry as the container reader yields it
Entry(name, dir, digest) == [name |-> name, dir |-> dir, digest |-> digest]
\* the entries a container may list: library jars and copies of the class
Entries ==
    {Entry(n, "lib", "none") : n \in EntryNames}
        \cup {Entry(TargetClass, d, g) : d \in Dirs, g \in Digests}
EntrySeqs(n) == UNION {[1..k -> Entries] : k \in 0..n}

\* the nodes handed to Identify: a class file on its own, or a file with the
\* entries it would list if opened as a container
Nodes ==
    {[name |-> TargetClass, dir |-> d, digest |-> g, entries |-> <<>>] :
        d \in Dirs, g \in Digests}
        \cup {[name |-> n, dir |-> "", digest |-> "none", entries |-> es] :
                 n \in NodeNames, es \in EntrySeqs(MaxEntries)}

\* What a scanned path holds, read off the file itself: the signals the
\* scanner can see in it, each with the version it pins, if any.
Signals(nd, listTimedOut) ==
    LET opened == ParseArchiveFormatFromFile(nd.name)[2] /\ ~listTimedOut
        inside == IF opened THEN {nd.entries[k] : k \in 1..Len(nd.entries)} ELSE {}
        own == [name |-> nd.name, dir |-> nd.dir, digest |-> nd.digest]
        copies == {c \in inside \cup {own} : c.name = TargetClass}
    IN {[by |-> "name", version |-> JarNameVersion(nd.name)] :
            x \in IF JarNameMatch(nd.name) THEN {1} ELSE {}}
       \cup {[by |-> "digest", version |-> KnownDigests[c.digest]] :
                c \in {d \in copies : d.digest \in DOMAIN KnownDigests}}
       \cup {[by |-> "relocated class", version |-> NoVersion] :
                c \in {d \in copies : d.dir # TargetPackage}}
       \cup {[by |-> "nested name", version |-> NoVersion] :
                e \in IF JarNameMatch(nd.name) THEN {}
                      ELSE {d \in inside : JarNameMatch(d.name)}}

\* the version the signals resolve to: a digest's before the name's
Resolved(signals) ==
    LET digests == {x.version : x \in {y \in signals : y.by = "digest"}}
        names == {x.version : x \in {y \in signals : y.by = "name"}}
    IN IF digests # {} THEN LowestVersion(digests)
       ELSE IF names # {} THEN LowestVersion(names)
       ELSE NoVersion

\* the path's only evidence is a resolved version 2.16.x
NarrowOnly(nd, listTimedOut) ==
    LET signals == Signals(nd, listTimedOut)
        version == Resolved(signals)
    IN /\ signals # {}
       /\ version # NoVersion
       /\ version[1] = 2 /\ version[2] = 16

\* the path has evidence that the base CVEs cover
BaseCovered(nd, listTimedOut) ==
    Signals(nd, listTimedOut) # {} /\ ~NarrowOnly(nd, listTimedOut)

NoNode == [name |-> <<>>, dir |-> "", digest |-> "none", entries |-> <<>>]
NoResult == [finding |-> {}, version |-> NoVersion]

IdentInit ==
    /\ node = NoNode
    /\ timedOut = FALSE
    /\ ires = NoResult
    /\ ipc = "call"
    /\ crep = NewDockerScanner(config, NilErr).scanner.reporter
    /\ seen = [narrow |-> 0, base |-> 0, visited |-> 0]

\* the walker calls Identify on a node; the listing pass may time out
CallIdentify ==
    /\ ipc = "call"
    /\ seen.visited < MaxPaths
    /\ \E n \in Nodes, t \in BOOLEAN :
          /\ node' = n
          /\ timedOut' = t
          /\ ires' = Identify(n, t)
    /\ ipc' = "collect"
    /\ UNCHANGED <<crep, seen>>

\* the walker hands the result to the reporter
CallCollect ==
    /\ ipc = "collect"
    /\ crep' = Collect(crep, ires.finding, ires.version)
    /\ seen' = [narrow |-> seen.narrow + (IF NarrowOnly(node, timedOut) THEN 1 ELSE 0),
                base |-> seen.base + (IF BaseCovered(node, timedOut) THEN 1 ELSE 0),
                visited |-> seen.visited + 1]
    /\ ipc' = "call"
    /\ node' = NoNode
    /\ timedOut' = FALSE
    /\ ires' = NoResult

-----------------------------------------------------------------------------
(* package docker: Scanner, NewDockerScanner, ScanImages, scanImage *)

\* dockertypes.ImageSummary number i of the daemon's list
Image(i, tagged) ==
    [ID |-> i, RepoTags |-> IF tagged THEN <<[repo |-> i]>> ELSE <<>>]

ImageLists ==
    UNION {{[i \in 1..n |-> Image(i, t[i])] : t \in [1..n -> BOOLEAN]} : n \in 0..MaxImages}

\* the locals of scanImage before its first statement
FreshLocals ==
    [tmpDir |-> 0, outFile |-> "none", deferred |-> FALSE, visited |-> 0,
     cstats |-> EmptyStats, ret |-> [stats |-> EmptyStats, err |-> NilErr]]

FreshHist ==
    [called |-> FALSE, steps |-> <<>>, crawled |-> FALSE, outcome |-> "none",
     cause |-> "nil", stats |-> EmptyStats, counted |-> 0,
     misattributed |-> FALSE]

\* the nodes a flattened image may hold
CrawlNodes ==
    {[name |-> <<"notes", Dot, "txt">>, dir |-> "", digest |-> "none", entries |-> <<>>],
     [name |-> Jar2141, dir |-> "", digest |-> "none",
      entries |-> <<Entry(TargetClass, TargetPackage, "md5-2.14.1")>>],
     [name |-> Jar2160, dir |-> "", digest |-> "none", entries |-> <<>>],
     [name |-> <<"app", Dot, "war">>, dir |-> "", digest |-> "none",
      entries |-> <<Entry(Jar2160, "lib", "none")>>]}

DockerInit ==
    /\ config \in [DisableCVE45105 : BOOLEAN, OutputSummary : BOOLEAN]
    /\ imageList \in ImageLists
    /\ scannerErr = NilErr
    /\ ctxDone = FALSE
    /\ pc = "NewDockerScanner"
    /\ idx = 0
    /\ reporter = Nil
    /\ stats = EmptyStats
    /\ loc = FreshLocals
    /\ fs = [tmpDirs |-> {}, tar |-> {}, extracted |-> {}, cwd |-> 0]
    /\ errWriter = <<>>
    /\ summary = [written |-> FALSE, stats |-> EmptyStats, count |-> 0]
    /\ result = [returned |-> FALSE, count |-> 0, err |-> NilErr]
    /\ hist = [i \in 1..Len(imageList) |-> FreshHist]
    /\ faults = 0

\* the causes a failing call can have: a call that takes the context fails
\* with the cancellation once the context is cancelled
FailCauses(takesCtx) ==
    IF takesCtx /\ ctxDone THEN {"canceled"}
    ELSE IF faults < MaxFaults THEN {"io"} ELSE {}
CanSucceed(takesCtx) == ~(takesCtx /\ ctxDone)
\* a failure that is not the cancellation is counted
Charge(cause) == faults' = IF cause = "io" THEN faults + 1 ELSE faults
NoFault == faults' = faults

\* the caller cancels the context
Cancel ==
    /\ pc # "done"
    /\ ~ctxDone
    /\ ctxDone' = TRUE
    /\ UNCHANGED <<fmtVars, identVars, scannerErr, config, imageList, pc, idx, reporter, stats, loc, fs,
                   errWriter, summary, result, hist>>
    /\ NoFault

\* the program builds its Scanner: client.NewClientWithOpts succeeds or fails;
\* without a Scanner ScanImages is never called
CallNewDockerScanner ==
    /\ pc = "NewDockerScanner"
    /\ \E clientErr \in {NilErr} \cup {Err("", c) : c \in FailCauses(FALSE)} :
          LET r == NewDockerScanner(config, clientErr)
          IN /\ scannerErr' = r.err
             /\ Charge(clientErr.cause)
             /\ IF r.err = NilErr
                THEN /\ reporter' = r.scanner.reporter
                     /\ pc' = "ImageList"
                ELSE /\ reporter' = r.scanner
                     /\ pc' = "done"
    /\ UNCHANGED <<fmtVars, identVars, config, imageList, ctxDone, idx, stats, loc, fs,
                   errWriter, summary, result, hist>>

\* d.client.ImageList(ctx, ...)
ImageList ==
    /\ pc = "ImageList"
    /\ \/ /\ CanSucceed(TRUE)
          /\ idx' = 1
          /\ pc' = "Loop"
          /\ NoFault
          /\ UNCHANGED result
       \/ \E c \in FailCauses(TRUE) :
             /\ result' = [returned |-> TRUE, count |-> 0,
                           err |-> Err("could not list docker images", c)]
             /\ pc' = "done"
             /\ Charge(c)
             /\ UNCHANGED idx
    /\ UNCHANGED <<fmtVars, identVars, scannerErr, config, imageList, ctxDone, reporter, stats, loc, fs,
                   errWriter, summary, hist>>

\* for _, image := range imageList: an image without repo tags is skipped
LoopSkip ==
    /\ pc = "Loop"
    /\ idx <= Len(imageList)
    /\ Len(imageList[idx].RepoTags) = 0
    /\ idx' = idx + 1
    /\ UNCHANGED <<fmtVars, identVars, scannerErr, config, imageList, ctxDone, pc, reporter, stats, loc, fs,
                   errWriter, summary, result, hist>>
    /\ NoFault

LoopEnter ==
    /\ pc = "Loop"
    /\ idx <= Len(imageList)
    /\ Len(imageList[idx].RepoTags) # 0
    /\ pc' = "SetImageID"
    /\ UNCHANGED <<fmtVars, identVars, scannerErr, config, imageList, ctxDone, idx, reporter, stats, loc, fs,
                   errWriter, summary, result, hist>>
    /\ NoFault

LoopExit ==
    /\ pc = "Loop"
    /\ idx > Len(imageList)
    /\ pc' = "Count"
    /\ UNCHANGED <<fmtVars, identVars, scannerErr, config, imageList, ctxDone, idx, reporter, stats, loc, fs,
                   errWriter, summary, result, hist>>
    /\ NoFault

\* d.reporter.SetImageID(image.ID)
SetImageID ==
    /\ pc = "SetImageID"
    /\ reporter' = [reporter EXCEPT !.ImageID = imageList[idx].ID]
    /\ pc' = "SetImageTags"
    /\ UNCHANGED <<fmtVars, identVars, scannerErr, config, imageList, ctxDone, idx, stats, loc, fs,
                   errWriter, summary, result, hist>>
    /\ NoFault

\* d.reporter.SetImageTags(image.RepoTags), then the call of scanImage
SetImageTags ==
    /\ pc = "SetImageTags"
    /\ reporter' = [reporter EXCEPT !.ImageTags = imageList[idx].RepoTags]
    /\ loc' = FreshLocals
    /\ hist' = [hist EXCEPT ![idx].called = TRUE]
    /\ pc' = "ParseReference"
    /\ UNCHANGED <<fmtVars, identVars, scannerErr, config, imageList, ctxDone, idx, stats, fs,
                   errWriter, summary, result>>
    /\ NoFault

\* return crawl.Stats{}, err: the deferred function, once registered, runs first
ReturnError(wrap, cause) ==
    /\ Charge(cause)
    /\ loc' = [loc EXCEPT !.ret = [stats |-> EmptyStats, err |-> Err(wrap, cause)]]
    /\ pc' = IF loc.deferred THEN "DeferClose" ELSE "Return"

\* a step of scanImage has succeeded
Done(step) ==
    /\ hist' = [hist EXCEPT ![idx].steps = Append(@, step)]
    /\ NoFault

\* name.ParseReference(image.RepoTags[0])
ParseReference ==
    /\ pc = "ParseReference"
    /\ \/ /\ pc' = "DaemonImage"
          /\ Done("reference")
          /\ UNCHANGED loc
       \/ /\ faults < MaxFaults
          /\ ReturnError("failed to get image reference", "io")
          /\ UNCHANGED hist
    /\ UNCHANGED <<fmtVars, identVars, scannerErr, config, imageList, ctxDone, idx, reporter, stats, fs,
                   errWriter, summary, result>>

\* daemon.Image(ref, daemon.WithClient(d.client), daemon.WithContext(ctx))
DaemonImage ==
    /\ pc = "DaemonImage"
    /\ \/ /\ CanSucceed(TRUE)
          /\ pc' = "MkdirTemp"
          /\ Done("image")
          /\ UNCHANGED loc
       \/ \E c \in FailCauses(TRUE) :
             /\ ReturnError("", c)
             /\ UNCHANGED hist
    /\ UNCHANGED <<fmtVars, identVars, scannerErr, config, imageList, ctxDone, idx, reporter, stats, fs,
                   errWriter, summary, result>>

\* os.MkdirTemp("", "log4j-sniffer-<image.ID>")
MkdirTemp ==
    /\ pc = "MkdirTemp"
    /\ \/ /\ fs' = [fs EXCEPT !.tmpDirs = @ \cup {idx}]
          /\ loc' = [loc EXCEPT !.tmpDir = idx]
          /\ pc' = "Create"
          /\ Done("mkdir")
       \/ /\ faults < MaxFaults
          /\ ReturnError("could not create temporary directory for image", "io")
          /\ UNCHANGED <<fs, hist>>
    /\ UNCHANGED <<fmtVars, identVars, scannerErr, config, imageList, ctxDone, idx, reporter, stats,
                   errWriter, summary, result>>

\* os.Create(imageTmpDir/image.tar); on success the cleanup is deferred
Create ==
    /\ pc = "Create"
    /\ \/ /\ fs' = [fs EXCEPT !.tar = @ \cup {loc.tmpDir}]
          /\ loc' = [loc EXCEPT !.outFile = "open", !.deferred = TRUE]
          /\ pc' = "Export"
          /\ Done("create")
       \/ /\ faults < MaxFaults
          /\ ReturnError("", "io")
          /\ UNCHANGED <<fs, hist>>
    /\ UNCHANGED <<fmtVars, identVars, scannerErr, config, imageList, ctxDone, idx, reporter, stats,
                   errWriter, summary, result>>

\* crane.Export(img, outFile): img reads from the daemon under ctx
Export ==
    /\ pc = "Export"
    /\ \/ /\ CanSucceed(TRUE)
          /\ pc' = "Unarchive"
          /\ Done("export")
          /\ UNCHANGED loc
       \/ \E c \in FailCauses(TRUE) :
             /\ ReturnError("could not export image", c)
             /\ UNCHANGED hist
    /\ UNCHANGED <<fmtVars, identVars, scannerErr, config, imageList, ctxDone, idx, reporter, stats, fs,
                   errWriter, summary, result>>

\* archiver.Unarchive with its error dropped
UnarchiveErrorDropped ==
    /\ pc = "Unarchive"
    /\ \/ /\ fs' = [fs EXCEPT !.extracted = @ \cup {loc.tmpDir}]
          /\ Done("unarchive")
       \/ /\ faults < MaxFaults
          /\ Charge("io")
          /\ UNCHANGED <<fs, hist>>
    /\ pc' = "Remove"
    /\ UNCHANGED <<fmtVars, identVars, scannerErr, config, imageList, ctxDone, idx, reporter, stats, loc,
                   errWriter, summary, result>>

\* archiver.Unarchive(outFile.Name(), imageTmpDir)
Unarchive ==
    /\ pc = "Unarchive"
    /\ \/ /\ fs' = [fs EXCEPT !.extracted = @ \cup {loc.tmpDir}]
          /\ pc' = "Remove"
          /\ Done("unarchive")
          /\ UNCHANGED loc
       \/ /\ faults < MaxFaults
          /\ ReturnError("failed to extract image", "io")
          /\ UNCHANGED <<fs, hist>>
    /\ UNCHANGED <<fmtVars, identVars, scannerErr, config, imageList, ctxDone, idx, reporter, stats,
                   errWriter, summary, result>>

\* os.Remove(outFile.Name())
Remove ==
    /\ pc = "Remove"
    /\ \/ /\ fs' = [fs EXCEPT !.tar = @ \ {loc.tmpDir}]
          /\ pc' = "Chdir"
          /\ Done("remove")
          /\ UNCHANGED loc
       \/ /\ faults < MaxFaults
          /\ ReturnError("", "io")
          /\ UNCHANGED <<fs, hist>>
    /\ UNCHANGED <<fmtVars, identVars, scannerErr, config, imageList, ctxDone, idx, reporter, stats,
                   errWriter, summary, result>>

\* os.Chdir(imageTmpDir)
Chdir ==
    /\ pc = "Chdir"
    /\ \/ /\ fs' = [fs EXCEPT !.cwd = loc.tmpDir]
          /\ pc' = "Crawl"
          /\ Done("chdir")
          /\ UNCHANGED loc
       \/ /\ faults < MaxFaults
          /\ ReturnError("", "io")
          /\ UNCHANGED <<fs, hist>>
    /\ UNCHANGED <<fmtVars, identVars, scannerErr, config, imageList, ctxDone, idx, reporter, stats,
                   errWriter, summary, result>>

\* a log line on d.crawler.ErrorWriter
Line(kind, err) == [img |-> idx, kind |-> kind, err |-> err]

\* d.crawler.Crawl(ctx, ".", d.identifier.Identify, d.reporter.Collect) is called
CrawlInvoke ==
    /\ pc = "Crawl"
    /\ loc' = [loc EXCEPT !.visited = 0, !.cstats = EmptyStats]
    /\ hist' = [hist EXCEPT ![idx].crawled = TRUE, ![idx].steps = Append(@, "crawl")]
    /\ NoFault
    /\ pc' = "Walk"
    /\ UNCHANGED <<fmtVars, identVars, scannerErr, config, imageList, ctxDone, idx, reporter, stats, fs,
                   errWriter, summary, result>>

\* the crawl returns (Stats, error) and scanImage returns the same pair
CrawlReturn(err) ==
    /\ Charge(err.cause)
    /\ loc' = [loc EXCEPT !.ret = [stats |-> loc.cstats, err |-> err]]
    /\ pc' = "DeferClose"

\* the crawl root cannot be accessed: fatal to this root's crawl
WalkRootError ==
    /\ pc = "Walk"
    /\ loc.visited = 0
    /\ faults < MaxFaults
    /\ CrawlReturn(Err("", "io"))
    /\ UNCHANGED <<fmtVars, identVars, scannerErr, config, imageList, ctxDone, idx, reporter, stats, fs,
                   errWriter, summary, result, hist>>

\* one node is identified and the result collected by the reporter
WalkVisit ==
    /\ pc = "Walk"
    /\ ~ctxDone
    /\ loc.visited < MaxNodes
    /\ \E n \in CrawlNodes, t \in BOOLEAN :
          LET r == Identify(n, t)
              rep == Collect(reporter, r.finding, r.version)
          IN /\ reporter' = rep
             /\ hist' = [hist EXCEPT
                   ![idx].counted = @ + (rep.count - reporter.count),
                   ![idx].misattributed =
                        \/ @
                        \/ /\ rep.count # reporter.count
                           /\ \/ reporter.ImageID # imageList[idx].ID
                              \/ reporter.ImageTags # imageList[idx].RepoTags]
    /\ loc' = [loc EXCEPT !.visited = @ + 1, !.cstats.FilesScanned = @ + 1]
    /\ NoFault
    /\ UNCHANGED <<fmtVars, identVars, scannerErr, config, imageList, ctxDone, pc, idx, stats, fs,
                   errWriter, summary, result>>

\* cancellation: no new node is visited, the partial Stats come back with the
\* cancellation error
WalkCancelled ==
    /\ pc = "Walk"
    /\ ctxDone
    /\ CrawlReturn(Err("", "canceled"))
    /\ UNCHANGED <<fmtVars, identVars, scannerErr, config, imageList, ctxDone, idx, reporter, stats, fs,
                   errWriter, summary, result, hist>>

\* the walk has no node left
WalkDone ==
    /\ pc = "Walk"
    /\ CrawlReturn(NilErr)
    /\ UNCHANGED <<fmtVars, identVars, scannerErr, config, imageList, ctxDone, idx, reporter, stats, fs,
                   errWriter, summary, result, hist>>

\* the deferred function, first half: outFile.Close()
DeferClose ==
    /\ pc = "DeferClose"
    /\ loc' = [loc EXCEPT !.outFile = "closed"]
    /\ \/ /\ NoFault
          /\ UNCHANGED errWriter
       \/ /\ faults < MaxFaults
          /\ Charge("io")
          /\ errWriter' = Append(errWriter, Line("close", Err("", "io")))
    /\ pc' = "DeferRemoveAll"
    /\ UNCHANGED <<fmtVars, identVars, scannerErr, config, imageList, ctxDone, idx, reporter, stats, fs,
                   summary, result, hist>>

\* the deferred function, second half: os.RemoveAll(imageTmpDir)
DeferRemoveAll ==
    /\ pc = "DeferRemoveAll"
    /\ \/ /\ fs' = [fs EXCEPT !.tmpDirs = @ \ {loc.tmpDir},
                              !.tar = @ \ {loc.tmpDir},
                              !.extracted = @ \ {loc.tmpDir}]
          /\ NoFault
          /\ UNCHANGED errWriter
       \/ /\ faults < MaxFaults
          /\ Charge("io")
          /\ errWriter' = Append(errWriter, Line("removeall", Err("", "io")))
          /\ UNCHANGED fs
    /\ pc' = "Return"
    /\ UNCHANGED <<fmtVars, identVars, scannerErr, config, imageList, ctxDone, idx, reporter, stats, loc,
                   summary, result, hist>>

Returned == hist' = [hist EXCEPT ![idx].outcome = IF loc.ret.err = NilErr THEN "ok" ELSE "err",
                                 ![idx].cause = loc.ret.err.cause,
                                 ![idx].stats = loc.ret.stats]

\* the loop body after scanImage, leaving the loop on the first error
AfterScanImageBreakOnError ==
    /\ pc = "Return"
    /\ IF loc.ret.err # NilErr
       THEN /\ errWriter' = Append(errWriter, Line("scan", loc.ret.err))
            /\ pc' = "Count"
            /\ UNCHANGED stats
       ELSE /\ stats' = StatsAppend(stats, loc.ret.stats)
            /\ pc' = "Loop"
            /\ UNCHANGED errWriter
    /\ idx' = idx + 1
    /\ Returned
    /\ UNCHANGED <<fmtVars, identVars, scannerErr, config, imageList, ctxDone, reporter, loc, fs, summary, result>>
    /\ NoFault

\* imageStats, err := d.scanImage(ctx, image): an error is written to the
\* error writer and the loop continues; otherwise stats.Append(imageStats)
AfterScanImage ==
    /\ pc = "Return"
    /\ IF loc.ret.err # NilErr
       THEN /\ errWriter' = Append(errWriter, Line("scan", loc.ret.err))
            /\ UNCHANGED stats
       ELSE /\ stats' = StatsAppend(stats, loc.ret.stats)
            /\ UNCHANGED errWriter
    /\ idx' = idx + 1
    /\ pc' = "Loop"
    /\ Returned
    /\ UNCHANGED <<fmtVars, identVars, scannerErr, config, imageList, ctxDone, reporter, loc, fs, summary, result>>
    /\ NoFault

\* count := d.reporter.Count(); without OutputSummary, return count, nil
Count ==
    /\ pc = "Count"
    /\ IF config.OutputSummary
       THEN /\ result' = [result EXCEPT !.count = reporter.count]
            /\ pc' = "WriteSummary"
       ELSE /\ result' = [returned |-> TRUE, count |-> reporter.count, err |-> NilErr]
            /\ pc' = "done"
    /\ UNCHANGED <<fmtVars, identVars, scannerErr, config, imageList, ctxDone, idx, reporter, stats, loc, fs,
                   errWriter, summary, hist>>
    /\ NoFault

\* scan.WriteSummary(d.reporter.OutputWriter, d.config, stats, count)
WriteSummary ==
    /\ pc = "WriteSummary"
    /\ \/ /\ summary' = [written |-> TRUE, stats |-> stats, count |-> result.count]
          /\ result' = [returned |-> TRUE, count |-> result.count, err |-> NilErr]
          /\ NoFault
       \/ /\ faults < MaxFaults
          /\ Charge("io")
          /\ result' = [returned |-> TRUE, count |-> 0, err |-> Err("", "io")]
          /\ UNCHANGED summary
    /\ pc' = "done"
    /\ UNCHANGED <<fmtVars, identVars, scannerErr, config, imageList, ctxDone, idx, reporter, stats, loc, fs,
                   errWriter, hist>>

-----------------------------------------------------------------------------
(* Specifications. Each one runs one component; the others stay idle. *)

FmtIdle == fname = <<>> /\ fres = Pending /\ fpc = "idle"
IdentIdle ==
    /\ node = NoNode
    /\ timedOut = FALSE
    /\ ires = NoResult
    /\ ipc = "idle"
    /\ crep = NewDockerScanner(config, NilErr).scanner.reporter
    /\ seen = [narrow |-> 0, base |-> 0, visited |-> 0]
Configs == [DisableCVE45105 : BOOLEAN, OutputSummary : BOOLEAN]

DockerIdle ==
    /\ config \in Configs
    /\ imageList = <<>>
    /\ ctxDone = FALSE
    /\ scannerErr = NilErr
    /\ pc = "idle"
    /\ idx = 0
    /\ reporter = NewDockerScanner(config, NilErr).scanner.reporter
    /\ stats = EmptyStats
    /\ loc = FreshLocals
    /\ fs = [tmpDirs |-> {}, tar |-> {}, extracted |-> {}, cwd |-> 0]
    /\ errWriter = <<>>
    /\ summary = [written |-> FALSE, stats |-> EmptyStats, count |-> 0]
    /\ result = [returned |-> FALSE, count |-> 0, err |-> NilErr]
    /\ hist = <<>>
    /\ faults = 0

Init == DockerInit /\ IdentIdle /\ FmtIdle

Next ==
    \/ Cancel
    \/ CallNewDockerScanner
    \/ ImageList
    \/ LoopSkip
    \/ LoopEnter
    \/ LoopExit
    \/ SetImageID
    \/ SetImageTags
    \/ ParseReference
    \/ DaemonImage
    \/ MkdirTemp
    \/ Create
    \/ Export
    \/ Unarchive
    \/ Remove
    \/ Chdir
    \/ CrawlInvoke
    \/ WalkRootError
    \/ WalkVisit
    \/ WalkCancelled
    \/ WalkDone
    \/ DeferClose
    \/ DeferRemoveAll
    \/ AfterScanImage
    \/ Count
    \/ WriteSummary

\* the docker scanner
Spec == Init /\ [][Next]_vars

-----------------------------------------------------------------------------
(* The format detector applied to every filename of the bound. *)

\* every filename of at most n tokens
TokenSeqs(n) == UNION {[1..k -> FileTokens] : k \in 0..n}

FmtInit ==
    /\ fname \in TokenSeqs(MaxNameTokens)
    /\ fres = Pending
    /\ fpc = "call"

CallParse ==
    /\ fpc = "call"
    /\ fres' = ParseArchiveFormatFromFile(fname)
    /\ fpc' = "done"
    /\ UNCHANGED fname

FmtNext == CallParse /\ UNCHANGED <<identVars, dockerVars>>

InitFormat == DockerIdle /\ config.DisableCVE45105 = FALSE /\ config.OutputSummary = FALSE
                 /\ IdentIdle /\ FmtInit

\* the format detector
SpecFormat == InitFormat /\ [][FmtNext]_vars

IdentNext ==
    \/ CallIdentify /\ UNCHANGED <<fmtVars, dockerVars>>
    \/ CallCollect /\ UNCHANGED <<fmtVars, dockerVars>>

InitIdentify == DockerIdle /\ config.OutputSummary = FALSE /\ IdentInit /\ FmtIdle

\* one crawl: the identifier and the reporter
SpecIdentify == InitIdentify /\ [][IdentNext]_vars

-----------------------------------------------------------------------------
(* Format detector: properties. *)

\* the last k segments of a split name, joined by "."
SuffixOf(segs, k) == Join(SubSeq(segs, Len(segs) - k + 1, Len(segs)))

\* The lookup as the design document words it: split on ".", try the suffix of
\* the last two segments, then the suffix of the last segment; first hit wins.
RefLookup(filename) ==
    LET segs == Split(filename)
    IN IF Len(segs) >= 2 /\ SuffixOf(segs, 2) \in DOMAIN extensions
       THEN <<extensions[SuffixOf(segs, 2)], TRUE>>
       ELSE IF SuffixOf(segs, 1) \in DOMAIN extensions
       THEN <<extensions[SuffixOf(segs, 1)], TRUE>>
       ELSE <<UnsupportedArchive, FALSE>>

ZipFamily == {"zip", "jar", "war", "ear", "par"}

\* C1 as stated: for EVERY filename the result is the reference lookup's.
\* Refuted by a name without a '.' that equals a table key ("jar", "tar").
C1_LookupEveryName ==
    fpc = "done" => fres = RefLookup(fname)

\* C1 amended: for every filename holding at least one '.', the result is the
\* reference lookup's (two-segment suffix, then one-segment suffix); a name
\* ending in .tar.gz is TarGzArchive, in .tar.bz2 TarBz2Archive, and one whose
\* extension is zip, jar, war, ear or par is ZipArchive. A name without a '.'
\* is UnsupportedArchive even when the whole name is a table key.
C1_LookupDottedNames ==
    fpc = "done" =>
        LET segs == Split(fname)
            n == Len(segs)
        IN /\ n >= 2 => fres = RefLookup(fname)
           /\ n < 2 => fres = <<UnsupportedArchive, FALSE>>
           /\ (n >= 2 /\ segs[n] = "gz" /\ segs[n - 1] = "tar")
                 => fres = <<TarGzArchive, TRUE>>
           /\ (n >= 2 /\ segs[n] = "bz2" /\ segs[n - 1] = "tar")
                 => fres = <<TarBz2Archive, TRUE>>
           /\ (n >= 2 /\ segs[n] \in ZipFamily) => fres = <<ZipArchive, TRUE>>

\* "t.tar.gz" has been resolved, to tar.gz
C1_Witness ==
    /\ fpc = "done"
    /\ fname = <<"t", Dot, "tar", Dot, "gz">>
    /\ fres = <<TarGzArchive, TRUE>>

\* C2: every call returns a pair (no out-of-range slice), matched is false
\* exactly when the format is UnsupportedArchive, and a name with no matching
\* one- or two-segment suffix yields (UnsupportedArchive, false).
C2_TotalAndConsistent ==
    fpc = "done" =>
        LET segs == Split(fname)
        IN /\ fres # Panic
           /\ fres \in (UnsupportedArchive..ZipArchive) \X BOOLEAN
           /\ (fres[2] = FALSE) <=> (fres[1] = UnsupportedArchive)
           /\ (\A k \in 1..2 : k <= Len(segs) => SuffixOf(segs, k) \notin DOMAIN extensions)
                 => fres = <<UnsupportedArchive, FALSE>>

\* the empty name, a name with no '.', and one with exactly one '.' that
\* matches nothing have each been resolved to (UnsupportedArchive, false)
C2_Witness ==
    /\ fpc = "done"
    /\ fname \in {<<>>, <<"t">>, <<"t", Dot, "gz">>}
    /\ fres = <<UnsupportedArchive, FALSE>>

-----------------------------------------------------------------------------
(* One crawl: properties. *)

-----------------------------------------------------------------------------
(* Docker scanner: properties. *)

Imgs == 1..Len(imageList)
Tagged(i) == Len(imageList[i].RepoTags) # 0
Succeeded(i) == hist[i].outcome = "ok"

RECURSIVE SumOver(_, _)
\* the sum of f[i] over the images i <= n whose scan succeeded
SumOver(f, n) ==
    IF n = 0 THEN 0
    ELSE SumOver(f, n - 1) + (IF Succeeded(n) THEN f[n] ELSE 0)

\* the steps of scanImage that come before the crawl, in their order
ReadySteps ==
    <<"reference", "image", "mkdir", "create", "export", "unarchive", "remove", "chdir">>

\* C3: when scanImage returns, the temporary directory it created is gone.
\* Refuted: os.Create failing returns before the cleanup is deferred.
C3_TempDirRemovedOnReturn ==
    pc = "Return" => loc.tmpDir \notin fs.tmpDirs

\* C4: an image's failure never ends the run. Every image the loop has passed
\* that has a repo tag was attempted; a failed one left its error on the error
\* writer; and the loop is left only when every image has been passed.
C4_FailureNeverAborts ==
    /\ \A i \in Imgs :
          idx > i =>
             /\ Tagged(i) => hist[i].called /\ hist[i].outcome \in {"ok", "err"}
             /\ hist[i].outcome = "err" =>
                   \E k \in 1..Len(errWriter) :
                      /\ errWriter[k].img = i
                      /\ errWriter[k].kind = "scan"
                      /\ errWriter[k].err.cause = hist[i].cause
    /\ (pc \in {"Count", "WriteSummary", "done"} /\ idx > 0) => idx = Len(imageList) + 1

\* the first of two images failed, the second was still scanned, the run ended
C4_Witness ==
    /\ pc = "done"
    /\ Len(imageList) = 2
    /\ hist[1].outcome = "err"
    /\ hist[2].outcome = "ok"

\* C5: the summary and the returned count cover exactly the images whose scan
\* succeeded: the Stats are the merge of theirs, and the count holds no
\* finding collected from an image whose scan ended in an error.
\* Refuted: the reporter's count keeps the findings of a crawl that was
\* cancelled after collecting them.
C5_SummaryCoversSucceededOnly ==
    LET okFiles == SumOver([i \in Imgs |-> hist[i].stats.FilesScanned], Len(imageList))
        okCount == SumOver([i \in Imgs |-> hist[i].counted], Len(imageList))
    IN /\ summary.written =>
             /\ summary.stats = [FilesScanned |-> okFiles]
             /\ summary.count = okCount
       /\ (result.returned /\ result.err = NilErr) => result.count = okCount

\* the Stats half of C5 alone, which the code keeps
StatsCoverSucceededOnly ==
    summary.written =>
        summary.stats =
            [FilesScanned |->
                SumOver([i \in Imgs |-> hist[i].stats.FilesScanned], Len(imageList))]

\* the context was cancelled while image i was being acquired or crawled:
\* daemon.Image had succeeded and scanImage returned the cancellation error
CancelledDuringScan(i) ==
    /\ hist[i].cause = "canceled"
    /\ Len(hist[i].steps) >= 2

\* C6: once the context is cancelled while an image is being acquired or
\* crawled, so that scanImage returns the cancellation error, ScanImages
\* returns a cancellation error. Refuted: it returns count, nil.
C6_CancellationPropagates ==
    (result.returned /\ \E i \in Imgs : CancelledDuringScan(i))
        => result.err.cause = "canceled"

\* C7: the crawl of an image is invoked only after export, extraction, removal
\* of image.tar and the change of directory succeeded, in that order, so that
\* the directory holds the extracted image and no image.tar and is the cwd;
\* if one of the steps before the crawl fails, the crawl is never invoked and
\* scanImage returns empty Stats with an error.
C7_CrawlOnlyWhenReady ==
    /\ \A i \in Imgs :
          /\ hist[i].crawled => SubSeq(hist[i].steps, 1, Len(ReadySteps)) = ReadySteps
          /\ (hist[i].outcome # "none" /\ Len(hist[i].steps) < Len(ReadySteps)) =>
                /\ ~hist[i].crawled
                /\ hist[i].outcome = "err"
                /\ hist[i].stats = EmptyStats
    /\ pc = "Walk" =>
          /\ loc.tmpDir \in fs.tmpDirs
          /\ loc.tmpDir \in fs.extracted
          /\ loc.tmpDir \notin fs.tar
          /\ fs.cwd = loc.tmpDir

\* the first image failed at the extraction and was not crawled; the second
\* went through every step and was crawled
C7_Witness ==
    /\ Len(imageList) = 2
    /\ hist[1].outcome = "err"
    /\ hist[1].steps = SubSeq(ReadySteps, 1, 5)
    /\ ~hist[1].crawled
    /\ hist[2].crawled
    /\ hist[2].outcome = "ok"

\* the reporter's image context during a crawl, and the untagged images
ReporterContextMatches ==
    /\ pc \in {"Crawl", "Walk"} =>
          /\ reporter.ImageID = imageList[idx].ID
          /\ reporter.ImageTags = imageList[idx].RepoTags
    /\ \A i \in Imgs :
          /\ ~hist[i].misattributed
          /\ ~Tagged(i) => ~hist[i].called /\ hist[i].steps = <<>>
          /\ (~Tagged(i) /\ idx = i) => pc = "Loop"

\* C10: images are scanned one at a time with the reporter's image context
\* that of the image being crawled, an untagged image is skipped untouched,
\* and at most one temporary image directory exists at any moment.
\* Refuted in its last part: a directory that scanImage leaves behind (C3)
\* still exists when the next image's directory is made.
C10_OneImageAtATime ==
    /\ ReporterContextMatches
    /\ Cardinality(fs.tmpDirs) <= 1

====
